---- MODULE Spec2Model ----
(***************************************************************************)
(* Model of the condition engine of sim.py: Card, Hand, the set-based      *)
(* conditions (SameNumber, SameColour), the list-based conditions          *)
(* (AnyList, SameColourList) and GroupCondition.                           *)
(*                                                                         *)
(* Hand positions are 0..9 as in the source.  A Python List[Set[int]] is a *)
(* sequence of sets of positions.                                          *)
(***************************************************************************)
EXTENDS Integers, Sequences, FiniteSets, TLC

\* ------------------------------------------------------------------ bounds
\* Largest required_number handed to a constructor (the smallest is 0).
MaxRequired == 11
\* Largest number of sub-conditions of a GroupCondition.
MaxSubs == 3

\* ------------------------------------------------------- program constants
\* Hand.__init__ accepts exactly 10 cards.
HandSize == 10
\* ListBased.possibilities: while current_number <= 12
LastNumber == 12
\* card.number of a joker
JokerNumber == -1

Positions == 0..(HandSize - 1)

\* --------------------------------------------------------------- data model
Card(colour, number) == [colour |-> colour, number |-> number]

Joker == Card("black", JokerNumber)

\* Hand(cards): the ten cards, indexed 0..9.
Hand(cards) == [p \in Positions |-> cards[p + 1]]

\* The sub-sequences of n elements of the sequence deck_ from index lo on.
RECURSIVE Deals(_, _, _)
Deals(deck_, n, lo) ==
  IF n = 0 THEN { <<>> }
  ELSE IF Len(deck_) - lo + 1 < n THEN {}
  ELSE { <<deck_[lo]>> \o d : d \in Deals(deck_, n - 1, lo + 1) }
         \cup Deals(deck_, n, lo + 1)

\* hand = Hand(deck[0:10]) for the shuffles of a deck: any ten cards of the
\* deck (here in the order the deck lists them).
HandsOf(deck_) == { Hand(d) : d \in Deals(deck_, HandSize, 1) }

\* Parts of init_deck's deck (each coloured number once, eight jokers) that
\* the hands of the three families of conditions are dealt from.
SetDeck ==
  << Card("red", 5), Card("blue", 5), Card("green", 5), Card("yellow", 5),
     Card("blue", 8), Card("red", 8), Card("blue", 3),
     Joker, Joker, Joker, Joker, Joker, Joker >>

ListDeck ==
  << Card("blue", 7), Card("red", 7), Card("green", 7), Card("blue", 9),
     Card("red", 9), Card("blue", 11), Card("red", 11), Card("blue", 12),
     Card("red", 12), Card("blue", 8), Card("blue", 1),
     Joker, Joker, Joker >>

GroupDeck ==
  << Card("blue", 1), Card("red", 1), Card("green", 1), Card("blue", 4),
     Card("blue", 5), Card("red", 5), Card("blue", 6), Card("yellow", 6),
     Card("green", 9), Card("yellow", 9), Joker, Joker >>

\* ------------------------------------------------------------ list helpers
Range(s) == { s[k] : k \in 1..Len(s) }

\* The concatenation of a sequence of sequences (list.extend, repeated).
RECURSIVE Concat(_)
Concat(ss) ==
  IF Len(ss) = 0 THEN <<>>
  ELSE IF Len(ss) = 1 THEN ss[1]
  ELSE LET half == Len(ss) \div 2
       IN  Concat(SubSeq(ss, 1, half)) \o Concat(SubSeq(ss, half + 1, Len(ss)))

\* sorted(S) for a set of integers, as a sequence
RECURSIVE Ascending(_)
Ascending(S) ==
  IF S = {} THEN <<>>
  ELSE LET m == CHOOSE x \in S : \A y \in S : x <= y
       IN  <<m>> \o Ascending(S \ {m})

\* list_modified = sub_range[:]; del list_modified[rem]   (rem is 0-based)
DelAt(list, rem) ==
  [k \in 1..(Len(list) - 1) |-> IF k <= rem THEN list[k] ELSE list[k + 1]]

\* ------------------------------------------------------------ SetBased
\* internal_possibilities with the last removal index left out
\* (range(len(sub_range) - remaining_levels) in the recursive branch).
RECURSIVE internal_possibilities_short_range(_, _, _)
internal_possibilities_short_range(prefix, sub_range, remaining_levels) ==
  LET n == Len(sub_range)
      sub_combinations ==
        IF remaining_levels = 1
        THEN [r \in 1..n |-> Range(DelAt(sub_range, r - 1)) \cup prefix]
        ELSE Concat([r \in 1..(n - remaining_levels) |->
               LET rem == r - 1
                   list_modified == DelAt(sub_range, rem)
                   prefix_ == { list_modified[k] : k \in 1..rem }
                   sub_range_ == SubSeq(list_modified, rem + 1, n - 1)
               IN  internal_possibilities_short_range(prefix_, sub_range_,
                                                      remaining_levels - 1)])
  IN  [k \in 1..Len(sub_combinations) |-> sub_combinations[k] \cup prefix]

\* SetBased.internal_possibilities: every way to remove remaining_levels
\* elements of sub_range, the kept elements joined with prefix.
RECURSIVE internal_possibilities(_, _, _)
internal_possibilities(prefix, sub_range, remaining_levels) ==
  LET n == Len(sub_range)
      sub_combinations ==
        IF remaining_levels = 1
        THEN [r \in 1..n |-> Range(DelAt(sub_range, r - 1)) \cup prefix]
        ELSE Concat([r \in 1..(n - remaining_levels + 1) |->
               LET rem == r - 1
                   list_modified == DelAt(sub_range, rem)
                   prefix_ == { list_modified[k] : k \in 1..rem }
                   sub_range_ == SubSeq(list_modified, rem + 1, n - 1)
               IN  internal_possibilities(prefix_, sub_range_,
                                          remaining_levels - 1)])
  IN  [k \in 1..Len(sub_combinations) |-> sub_combinations[k] \cup prefix]

\* The tail shared by SameNumber.find_matches and SameColour.find_matches.
matches_to_possibilities(matches, required_number) ==
  IF Len(matches) < required_number THEN <<>>
  ELSE IF Len(matches) = required_number THEN << Range(matches) >>
  ELSE internal_possibilities({}, matches, Len(matches) - required_number)

\* SameNumber.candidates: the numbers of the non-joker cards
SameNumber_candidates(h) ==
  { h[p].number : p \in { q \in Positions : h[q].number # JokerNumber } }

\* SameNumber.find_matches
SameNumber_find_matches(h, number, required_number) ==
  LET matches == Ascending({ p \in Positions :
                   h[p].number = number \/ h[p].number = JokerNumber })
  IN  matches_to_possibilities(matches, required_number)

\* "black" not in card.colour / target.colour not in card.colour: substring
\* tests; among the colour words no one is a substring of another, so the
\* test is equality.
ColourIn(a, b) == a = b

\* SameColour.candidates: the colours of the cards that are not black
SameColour_candidates(h) ==
  { h[p].colour : p \in { q \in Positions : ~ColourIn("black", h[q].colour) } }

\* SameColour.find_matches
SameColour_find_matches(h, colour, required_number) ==
  LET matches == Ascending({ p \in Positions :
                   h[p].colour = colour \/ h[p].number = JokerNumber })
  IN  matches_to_possibilities(matches, required_number)

\* ------------------------------------------------------------ ListBased
\* AnyList.candidates: sorted(enumerate(hand.cards), key=number), a stable
\* sort; the result is given as the sequence of positions.
RECURSIVE SortedByNumber(_, _)
SortedByNumber(h, S) ==
  IF S = {} THEN <<>>
  ELSE LET p == CHOOSE x \in S : \A y \in S :
                  \/ h[x].number < h[y].number
                  \/ h[x].number = h[y].number /\ x <= y
       IN  <<p>> \o SortedByNumber(h, S \ {p})

AnyList_candidates(h) == SortedByNumber(h, Positions)

\* available_jokers = list(filter(number == -1, candidates))
jokers_of(h) ==
  SelectSeq(AnyList_candidates(h), LAMBDA p : h[p].number = JokerNumber)

\* set of the positions of number_cards = filter(number == current_number)
number_cards(h, number) ==
  Range(SelectSeq(AnyList_candidates(h), LAMBDA p : h[p].number = number))

\* available_jokers.pop() returns the last element and removes it
pop_value(list) == list[Len(list)]
pop_rest(list) == SubSeq(list, 1, Len(list) - 1)

\* ListBased.get_combinations, for a non-empty remaining_list: one position
\* out of every slot.
RECURSIVE get_combinations(_)
get_combinations(remaining_list) ==
  IF Len(remaining_list) = 1
  THEN LET first == Ascending(remaining_list[1])
       IN  [k \in 1..Len(first) |-> { first[k] }]
  ELSE LET sub_combinations == get_combinations(Tail(remaining_list))
           first == Ascending(remaining_list[1])
       IN  Concat([k \in 1..Len(first) |->
             [j \in 1..Len(sub_combinations) |->
                sub_combinations[j] \cup { first[k] }]])

\* get_combinations([]) calls itself on [][1:] = [] without end; with
\* required_number <= 0 the slice full_list[i:required_number+i] is empty for
\* i = -required_number, so get_possibilities ends in a RecursionError.
get_possibilities_raises(required_number) == required_number <= 0

\* get_possibilities without the windows: the whole streak whenever it is
\* long enough
get_possibilities_whole_streak(full_list, required_number) ==
  IF Len(full_list) >= required_number THEN get_combinations(full_list)
  ELSE <<>>

\* ListBased.get_possibilities, for required_number >= 1: the windows of
\* required_number slots of the streak.
get_possibilities(full_list, required_number) ==
  Concat([w \in 1..(Len(full_list) - required_number + 1) |->
            get_combinations(SubSeq(full_list, w, w + required_number - 1))])

\* One streak of ListBased.possibilities (the inner while loop), from
\* current_number on; gives the streak and the number the scan goes on with.
RECURSIVE build_streak(_, _, _, _)
build_streak(h, number, streak_, jokers_) ==
  IF number_cards(h, number) = {} /\ jokers_ # <<>>
  THEN build_streak(h, number + 1,
                    Append(streak_, { pop_value(jokers_) }), pop_rest(jokers_))
  ELSE IF number_cards(h, number) # {}
  THEN build_streak(h, number + 1,
                    Append(streak_, number_cards(h, number)), jokers_)
  ELSE [streak |-> streak_, current_number |-> number + 1]

\* ListBased.possibilities (the outer while loop) from current_number on.
RECURSIVE scan_from(_, _, _)
scan_from(h, required_number, number) ==
  IF number > LastNumber THEN <<>>
  ELSE LET s == build_streak(h, number, <<>>, jokers_of(h))
       IN  get_possibilities(s.streak, required_number)
             \o scan_from(h, required_number, s.current_number)

ListBased_possibilities(h, required_number) == scan_from(h, required_number, 1)

\* SameColourList.all_same_colour.  targets[0] is some position of a
\* non-joker card; when the test fails for one choice it fails for all.
all_same_colour(h, positions) ==
  LET targets == { p \in positions : h[p].number # JokerNumber }
  IN  IF targets = {} THEN TRUE
      ELSE LET target == h[CHOOSE p \in targets : TRUE]
           IN  \A p \in positions : ColourIn(target.colour, h[p].colour)

\* SameColourList.possibilities: the filter over the list-based result
SameColourList_filter(h, all_list_possibilities) ==
  SelectSeq(all_list_possibilities, LAMBDA ps : all_same_colour(h, ps))

\* ------------------------------------------------------------ conditions
SetKinds == { "SameNumber", "SameColour" }
ListKinds == { "AnyList", "SameColourList" }

\* Condition.__init__: stores required_number and sub_conditions as given.
Condition(kind, required_number, sub_conditions) ==
  [kind |-> kind, required_number |-> required_number,
   sub_conditions |-> sub_conditions]

NoCondition == Condition("none", 0, <<>>)

\* SetBased.possibilities with the candidates taken in ascending order (the
\* source takes them in the iteration order of a set).
SetBased_possibilities(h, kind, required_number) ==
  IF kind = "SameNumber"
  THEN LET cs == Ascending(SameNumber_candidates(h))
       IN  Concat([k \in 1..Len(cs) |->
                     SameNumber_find_matches(h, cs[k], required_number)])
  ELSE LET colours == << "green", "yellow", "red", "blue" >>
           cs == SelectSeq(colours, LAMBDA c : c \in SameColour_candidates(h))
       IN  Concat([k \in 1..Len(cs) |->
                     SameColour_find_matches(h, cs[k], required_number)])

\* condition.possibilities(hand) of a set-based or list-based condition
\* whose required_number is at least 1.
leaf_possibilities(h, c) ==
  IF c.kind \in SetKinds
  THEN SetBased_possibilities(h, c.kind, c.required_number)
  ELSE IF c.kind = "AnyList"
  THEN ListBased_possibilities(h, c.required_number)
  ELSE SameColourList_filter(h, ListBased_possibilities(h, c.required_number))

\* ------------------------------------------------------------ GroupCondition
\* fold_step without the isdisjoint test
fold_step_overlapping(remaining, b_poss_s) ==
  Concat([a \in 1..Len(remaining) |->
    [b \in 1..Len(b_poss_s) |-> remaining[a] \cup b_poss_s[b]]])

\* fold_step that keeps b_poss in place of a_poss.union(b_poss)
fold_step_forgetful(remaining, b_poss_s) ==
  Concat([a \in 1..Len(remaining) |->
    LET a_poss == remaining[a]
        disjoint == SelectSeq(b_poss_s, LAMBDA b_poss : a_poss \cap b_poss = {})
    IN  disjoint])

\* One round of the loop of GroupCondition.possibilities for i > 0.
fold_step(remaining, b_poss_s) ==
  Concat([a \in 1..Len(remaining) |->
    LET a_poss == remaining[a]
        disjoint == SelectSeq(b_poss_s, LAMBDA b_poss : a_poss \cap b_poss = {})
    IN  [b \in 1..Len(disjoint) |-> a_poss \cup disjoint[b]]])

\* The body of for i in range(len(sub_possibilities)): the value of
\* remaining_possibilities after round i (i counts from 0).
fold_round(sub_poss, round, remaining) ==
  IF round = 0 THEN remaining \o sub_poss[1]
  ELSE fold_step(remaining, sub_poss[round + 1])

\* GroupCondition.possibilities, given sub_possibilities, from round on
RECURSIVE fold_from(_, _, _)
fold_from(sub_poss, round, remaining) ==
  IF round >= Len(sub_poss) THEN remaining
  ELSE fold_from(sub_poss, round + 1, fold_round(sub_poss, round, remaining))

GroupCondition_possibilities(h, sub_conditions) ==
  fold_from([k \in 1..Len(sub_conditions) |->
               leaf_possibilities(h, sub_conditions[k])], 0, <<>>)

\* Condition.hand_passed
hand_passed(possibilities_) == Len(possibilities_) > 0

\* ------------------------------------------------------------ state
VARIABLES
  hand,                     \* the dealt Hand
  condition,                \* the constructed Condition
  pc,                       \* "new", "ready", "candidates", "outer", "inner",
                            \* "fold", "done", "raised"
  possibilities,            \* local of SetBased/ListBased.possibilities
  candidate,                \* SetBased.possibilities: loop variable
  candidate_possibilities,  \* SetBased.possibilities: find_matches' result
  todo,                     \* SetBased.possibilities: candidates not yet taken
  current_number,           \* ListBased.possibilities
  streak,                   \* ListBased.possibilities
  available_jokers,         \* ListBased.possibilities
  sub_possibilities,        \* GroupCondition.possibilities
  i,                        \* GroupCondition.possibilities: loop variable
  remaining_possibilities,  \* GroupCondition.possibilities
  result                    \* what condition.possibilities(hand) returned

vars == << hand, condition, pc, possibilities, candidate,
           candidate_possibilities, todo, current_number, streak,
           available_jokers, sub_possibilities, i, remaining_possibilities,
           result >>

setVars == << candidate, candidate_possibilities, todo >>
listVars == << current_number, streak, available_jokers >>
groupVars == << sub_possibilities, i, remaining_possibilities >>

NoCandidate == << "none", 0 >>

\* hand = Hand(deck[0:10]) precedes the construction of the conditions.
InitWith(hands) ==
  /\ hand \in hands
  /\ condition = NoCondition
  /\ pc = "new"
  /\ possibilities = <<>>
  /\ candidate = NoCandidate
  /\ candidate_possibilities = <<>>
  /\ todo = {}
  /\ current_number = 0
  /\ streak = <<>>
  /\ available_jokers = <<>>
  /\ sub_possibilities = <<>>
  /\ i = 0
  /\ remaining_possibilities = <<>>
  /\ result = <<>>

\* ------------------------------------------------------------ construction
RequiredNumbers == 0..MaxRequired

\* SameNumber(n), SameColour(n), AnyList(n), SameColourList(n): the
\* constructors hand required_number to Condition.__init__, which stores it.
Construct(kind, required_number) ==
  /\ pc = "new"
  /\ condition' = Condition(kind, required_number, <<>>)
  /\ pc' = "ready"
  /\ UNCHANGED << hand, possibilities, setVars, listVars, groupVars, result >>

ConstructSet == \E kind \in SetKinds, n \in RequiredNumbers : Construct(kind, n)

ConstructList == \E kind \in ListKinds, n \in RequiredNumbers : Construct(kind, n)

\* Set-based and list-based conditions that the groups of the source's
\* experiments are made of.
GroupLeaves ==
  { Condition("SameNumber", 2, <<>>), Condition("SameColour", 4, <<>>),
    Condition("AnyList", 3, <<>>), Condition("SameColourList", 3, <<>>) }

SubConditionLists ==
  UNION { [1..len -> GroupLeaves] : len \in 1..MaxSubs }

\* GroupCondition(sub_conditions)
ConstructGroup ==
  /\ pc = "new"
  /\ \E sub_conditions \in SubConditionLists :
       condition' = Condition("GroupCondition", 0, sub_conditions)
  /\ pc' = "ready"
  /\ UNCHANGED << hand, possibilities, setVars, listVars, groupVars, result >>

\* ------------------------------------------------------------ SetBased.possibilities
\* find_matches of the condition's class, for a candidate (colour, number)
find_matches(h, kind, cand, required_number) ==
  IF kind = "SameNumber"
  THEN SameNumber_find_matches(h, cand[2], required_number)
  ELSE SameColour_find_matches(h, cand[1], required_number)

\* candidates of the condition's class
candidates(h, kind) ==
  IF kind = "SameNumber"
  THEN { << "any", number >> : number \in SameNumber_candidates(h) }
  ELSE { << colour, JokerNumber >> : colour \in SameColour_candidates(h) }

\* possibilities = []; candidates = self.candidates(hand)
SetBegin ==
  /\ pc = "ready"
  /\ condition.kind \in SetKinds
  /\ possibilities' = <<>>
  /\ todo' = candidates(hand, condition.kind)
  /\ pc' = "candidates"
  /\ UNCHANGED << hand, condition, candidate, candidate_possibilities,
                  listVars, groupVars, result >>

\* One round of the loop over the candidates; the candidates come out of a
\* set, in any order.
SetCandidate ==
  /\ pc = "candidates"
  /\ \E c \in todo :
       /\ candidate' = c
       /\ candidate_possibilities' =
            find_matches(hand, condition.kind, c, condition.required_number)
       /\ possibilities' = possibilities \o candidate_possibilities'
       /\ todo' = todo \ {c}
  /\ UNCHANGED << hand, condition, pc, listVars, groupVars, result >>

\* return possibilities
SetReturn ==
  /\ pc = "candidates"
  /\ todo = {}
  /\ result' = possibilities
  /\ pc' = "done"
  /\ UNCHANGED << hand, condition, possibilities, setVars, listVars,
                  groupVars >>

\* ------------------------------------------------------------ ListBased.possibilities
\* possibilities = []; candidates = ...; current_number = 1
ListBegin ==
  /\ pc = "ready"
  /\ condition.kind \in ListKinds
  /\ possibilities' = <<>>
  /\ current_number' = 1
  /\ streak' = <<>>
  /\ available_jokers' = <<>>
  /\ pc' = "outer"
  /\ UNCHANGED << hand, condition, setVars, groupVars, result >>

\* while current_number <= 12: streak = []; available_jokers = the jokers
StartStreak ==
  /\ pc = "outer"
  /\ current_number <= LastNumber
  /\ streak' = <<>>
  /\ available_jokers' = jokers_of(hand)
  /\ pc' = "inner"
  /\ UNCHANGED << hand, condition, possibilities, current_number, setVars,
                  groupVars, result >>

\* joker_fills without the test that no card bears the number
joker_fills_always(number_cards_, available_jokers_) ==
  available_jokers_ # <<>>

\* if len(number_cards) == 0 and len(available_jokers) > 0
joker_fills(number_cards_, available_jokers_) ==
  number_cards_ = {} /\ available_jokers_ # <<>>

\* streak.append(set([available_jokers.pop()[0]])); current_number += 1
FillWithJoker ==
  /\ pc = "inner"
  /\ joker_fills(number_cards(hand, current_number), available_jokers)
  /\ streak' = Append(streak, { pop_value(available_jokers) })
  /\ available_jokers' = pop_rest(available_jokers)
  /\ current_number' = current_number + 1
  /\ UNCHANGED << hand, condition, pc, possibilities, setVars, groupVars,
                  result >>

\* elif len(number_cards) > 0: streak.append(the positions);
\* current_number += 1
FillWithCards ==
  /\ pc = "inner"
  /\ ~joker_fills(number_cards(hand, current_number), available_jokers)
  /\ number_cards(hand, current_number) # {}
  /\ streak' = Append(streak, number_cards(hand, current_number))
  /\ current_number' = current_number + 1
  /\ UNCHANGED << hand, condition, pc, possibilities, available_jokers,
                  setVars, groupVars, result >>

\* the breaking round without current_number += 1
after_break_stuck(number) == number

\* current_number += 1 on the round that breaks the streak
after_break(number) == number + 1

\* else: streak_broken = True; current_number += 1; the inner loop ends and
\* possibilities.extend(self.get_possibilities(streak))
BreakStreak ==
  /\ pc = "inner"
  /\ ~joker_fills(number_cards(hand, current_number), available_jokers)
  /\ number_cards(hand, current_number) = {}
  /\ current_number' = after_break(current_number)
  /\ IF get_possibilities_raises(condition.required_number)
     THEN /\ pc' = "raised"
          /\ UNCHANGED possibilities
     ELSE /\ pc' = "outer"
          /\ possibilities' =
               possibilities \o get_possibilities(streak, condition.required_number)
  /\ UNCHANGED << hand, condition, streak, available_jokers, setVars,
                  groupVars, result >>

\* return possibilities (AnyList) or the filtered list (SameColourList)
ListReturn ==
  /\ pc = "outer"
  /\ current_number > LastNumber
  /\ result' = IF condition.kind = "SameColourList"
               THEN SameColourList_filter(hand, possibilities)
               ELSE possibilities
  /\ pc' = "done"
  /\ UNCHANGED << hand, condition, possibilities, setVars, listVars,
                  groupVars >>

\* ------------------------------------------------------------ GroupCondition.possibilities
\* sub_possibilities = [condition.possibilities(hand) for condition in ...]
GroupBegin ==
  /\ pc = "ready"
  /\ condition.kind = "GroupCondition"
  /\ sub_possibilities' =
       [k \in 1..Len(condition.sub_conditions) |->
          leaf_possibilities(hand, condition.sub_conditions[k])]
  /\ i' = 0
  /\ remaining_possibilities' = <<>>
  /\ pc' = "fold"
  /\ UNCHANGED << hand, condition, possibilities, setVars, listVars, result >>

\* One round of for i in range(len(sub_possibilities))
GroupFold ==
  /\ pc = "fold"
  /\ i < Len(sub_possibilities)
  /\ remaining_possibilities' =
       fold_round(sub_possibilities, i, remaining_possibilities)
  /\ i' = i + 1
  /\ UNCHANGED << hand, condition, pc, possibilities, setVars, listVars,
                  sub_possibilities, result >>

\* return remaining_possibilities
GroupReturn ==
  /\ pc = "fold"
  /\ i = Len(sub_possibilities)
  /\ result' = remaining_possibilities
  /\ pc' = "done"
  /\ UNCHANGED << hand, condition, possibilities, setVars, listVars,
                  groupVars >>

\* ------------------------------------------------------------ specifications
SetNext == ConstructSet \/ SetBegin \/ SetCandidate \/ SetReturn

ListNext ==
  \/ ConstructList \/ ListBegin \/ StartStreak \/ FillWithJoker
  \/ FillWithCards \/ BreakStreak \/ ListReturn

GroupNext == ConstructGroup \/ GroupBegin \/ GroupFold \/ GroupReturn

SetSpec == InitWith(HandsOf(SetDeck)) /\ [][SetNext]_vars

ListSpec == InitWith(HandsOf(ListDeck)) /\ [][ListNext]_vars

GroupSpec == InitWith(HandsOf(GroupDeck)) /\ [][GroupNext]_vars

Init == InitWith(HandsOf(GroupDeck))

Next == SetNext \/ ListNext \/ GroupNext

Spec == Init /\ [][Next]_vars

\* The program runs one step after the other and is never suspended.
Halted == pc \in { "done", "raised" }

\* Weak fairness of Next, WF_vars(Next), with ENABLED <<Next>>_vars written
\* as the state predicate it equals in this program, ~Halted (see CanStep).
FairSpec == Spec /\ ([]<>Halted \/ []<><<Next>>_vars)

\* ------------------------------------------------------------ properties
JokerPositions == { p \in Positions : hand[p].number = JokerNumber }

ValidRequired(n) == n \in 1..HandSize

\* C(m, k)
RECURSIVE Choose(_, _)
Choose(m, k) ==
  IF k < 0 \/ k > m THEN 0
  ELSE IF k = 0 \/ k = m THEN 1
  ELSE Choose(m - 1, k - 1) + Choose(m - 1, k)

\* The positions that match the candidate of the current round.
CandidateMatches ==
  IF condition.kind = "SameNumber"
  THEN { p \in Positions : hand[p].number = candidate[2] } \cup JokerPositions
  ELSE { p \in Positions : hand[p].colour = candidate[1] } \cup JokerPositions

\* C1: for a required number k in 1..10 and a candidate key with m matching
\* positions (cards of the key and jokers), find_matches returns C(m, k)
\* sets when m >= k and none otherwise; the sets are pairwise distinct, of
\* size k, and made of matching positions.
C1_FindMatchesIsChoose ==
  (/\ pc \in { "candidates", "done" }
   /\ condition.kind \in SetKinds
   /\ candidate # NoCandidate
   /\ ValidRequired(condition.required_number))
  => LET k == condition.required_number
         m == Cardinality(CandidateMatches)
         cp == candidate_possibilities
     IN  /\ Len(cp) = IF m >= k THEN Choose(m, k) ELSE 0
         /\ \A a, b \in 1..Len(cp) : a # b => cp[a] # cp[b]
         /\ \A a \in 1..Len(cp) :
              Cardinality(cp[a]) = k /\ cp[a] \subseteq CandidateMatches

\* A round of SameNumber(3) on ten matching positions: C(10, 3) = 120 sets.
C1_Witness ==
  /\ pc = "candidates"
  /\ condition.kind = "SameNumber"
  /\ condition.required_number = 3
  /\ candidate # NoCandidate
  /\ Cardinality(CandidateMatches) = HandSize
  /\ Len(candidate_possibilities) = 120

IsGroupDone == pc = "done" /\ condition.kind = "GroupCondition"

\* The sum of the required numbers of the sub-conditions from the k-th on.
RECURSIVE RequiredSum(_, _)
RequiredSum(sub_conditions, k) ==
  IF k > Len(sub_conditions) THEN 0
  ELSE sub_conditions[k].required_number + RequiredSum(sub_conditions, k + 1)

\* r is the union of pairwise disjoint sets, one out of each of the
\* possibility lists sub_poss[k], sub_poss[k+1], ...
RECURSIVE Decomposes(_, _, _)
Decomposes(r, sub_poss, k) ==
  IF k > Len(sub_poss) THEN r = {}
  ELSE \E b \in Range(sub_poss[k]) :
         b \subseteq r /\ Decomposes(r \ b, sub_poss, k + 1)

\* C2: every set a GroupCondition returns is the union of pairwise disjoint
\* sets, one out of each sub-condition's possibility list, and its size is
\* the sum of the required numbers.
C2_GroupDisjointUnion ==
  IsGroupDone =>
    \A r \in Range(result) :
      /\ Decomposes(r, sub_possibilities, 1)
      /\ Cardinality(r) = RequiredSum(condition.sub_conditions, 1)

\* Three sub-conditions, a non-empty result, and pairs that the fold dropped
\* because they overlap.
C2_Witness ==
  /\ IsGroupDone
  /\ Len(condition.sub_conditions) = 3
  /\ result # <<>>
  /\ Len(result) < Len(sub_possibilities[1]) * Len(sub_possibilities[2])
                     * Len(sub_possibilities[3])

\* The list in the order given by the permutation f
Permuted(list, f) == [k \in 1..Len(list) |-> list[f[k]]]

\* C3: hand_passed of a GroupCondition is the same for every order of its
\* sub-conditions.  A GroupCondition over the permuted sub-conditions folds
\* the permuted sub_possibilities, each of them being the sub-condition's own
\* possibility list for the hand.
C3_GroupOrderIndependent ==
  IsGroupDone =>
    \A f \in Permutations(1..Len(condition.sub_conditions)) :
      hand_passed(fold_from(Permuted(sub_possibilities, f), 0, <<>>))
        = hand_passed(result)

\* Three different sub-conditions, each passing alone, failing together.
C3_Witness ==
  /\ IsGroupDone
  /\ Len(condition.sub_conditions) = 3
  /\ Cardinality(Range(condition.sub_conditions)) = 3
  /\ \A k \in 1..3 : sub_possibilities[k] # <<>>
  /\ result = <<>>

IsListDone(kind) ==
  /\ pc = "done"
  /\ condition.kind = kind
  /\ ValidRequired(condition.required_number)

\* A run of n numbers from s on can be laid with n positions of the hand:
\* the numbers that no card bears are no more than the jokers.
FillableFrom(s, n) ==
  Cardinality({ x \in s..(s + n - 1) :
                  \A p \in Positions : hand[p].number # x })
    <= Cardinality(JokerPositions)

FillableRun(n) == \E s \in 1..(LastNumber - n + 1) : FillableFrom(s, n)

\* C4: when the hand holds a fillable run of n numbers within 1..12,
\* AnyList(n).possibilities(hand) is not empty.
C4_FindsEveryFillableRun ==
  (IsListDone("AnyList") /\ FillableRun(condition.required_number))
    => hand_passed(result)

\* The non-joker members of the set share one colour.
NonJokersShareColour(positions) ==
  \A p, q \in positions \ JokerPositions : hand[p].colour = hand[q].colour

\* C5: SameColourList(n).possibilities(hand) is the sub-list of
\* AnyList(n).possibilities(hand) of the sets whose non-joker members share
\* one colour; jokers never make a set rejected.
C5_MonochromeFilter ==
  IsListDone("SameColourList") =>
    result = SelectSeq(possibilities, NonJokersShareColour)

\* The set is a run of n numbers within 1..12: n positions, the non-joker
\* cards bearing different numbers of s..s+n-1, the jokers taking the rest.
IsRun(positions, n) ==
  /\ Cardinality(positions) = n
  /\ \E s \in 1..(LastNumber - n + 1) :
       /\ \A p \in positions \ JokerPositions :
            hand[p].number \in s..(s + n - 1)
       /\ \A p, q \in positions \ JokerPositions :
            p # q => hand[p].number # hand[q].number

\* C6: every set AnyList(n).possibilities(hand) returns, for n in 1..10, is
\* a run of n numbers within 1..12 laid with n different positions.
C6_ReturnsOnlyRuns ==
  IsListDone("AnyList") =>
    \A k \in 1..Len(result) : IsRun(result[k], condition.required_number)

\* A returned run of at least three numbers with a joker between cards.
C6_Witness ==
  /\ IsListDone("AnyList")
  /\ condition.required_number >= 3
  /\ \E k \in 1..Len(result) :
       /\ result[k] \cap JokerPositions # {}
       /\ Cardinality(result[k] \ JokerPositions) >= 2

\* The number of the k-th slot of the streak under construction.
SlotNumber(k) == current_number - Len(streak) + k - 1

\* C9: within a streak a joker fills at most one slot, and only a slot whose
\* number no card of the hand bears; a streak starts with all the jokers of
\* the hand available.
C9_JokersScopedToStreak ==
  pc = "inner" =>
    /\ \A k1, k2 \in 1..Len(streak) :
         k1 # k2 => streak[k1] \cap streak[k2] \cap JokerPositions = {}
    /\ \A k \in 1..Len(streak) :
         streak[k] \cap JokerPositions # {} =>
           \A p \in Positions : hand[p].number # SlotNumber(k)
    /\ \A k \in 1..Len(streak) :
         streak[k] \cap Range(available_jokers) = {}
    /\ streak = <<>> => Range(available_jokers) = JokerPositions

\* A later streak laid with a joker that an earlier streak had used: the
\* streak starts after number 1, which only a joker can fill in these hands.
C9_Witness ==
  /\ pc = "inner"
  /\ Len(streak) >= 2
  /\ SlotNumber(1) > 1
  /\ \E k \in 1..Len(streak) : streak[k] \cap JokerPositions # {}
  /\ \A p \in Positions : hand[p].number # 1

\* C10: no slot of a streak is for a number greater than 12.
C10_SlotsWithinNumbers ==
  (pc = "inner" /\ streak # <<>>) => SlotNumber(Len(streak)) <= LastNumber

\* C7: a set-based or list-based condition that exists has a required
\* number in 1..10.
C7_RequiredNumberValidated ==
  condition.kind \in SetKinds \cup ListKinds
    => ValidRequired(condition.required_number)

\* The required numbers of the condition under evaluation lie in 1..10.
ValidCondition ==
  IF condition.kind = "GroupCondition"
  THEN \A k \in 1..Len(condition.sub_conditions) :
         ValidRequired(condition.sub_conditions[k].required_number)
  ELSE ValidRequired(condition.required_number)

\* Some action of Next can be taken: the guards of the actions, pc by pc.
CanStep ==
  \/ pc \in { "new", "candidates", "outer", "inner" }
  \/ pc = "ready"
       /\ condition.kind \in SetKinds \cup ListKinds \cup { "GroupCondition" }
  \/ pc = "fold" /\ i <= Len(sub_possibilities)

\* C8: with required numbers in 1..10, possibilities(hand) never raises,
\* never stops before its end, and comes to its end.
C8_TotalAndTerminates ==
  /\ [](ValidCondition => pc # "raised")
  /\ [](~Halted => CanStep)
  /\ (pc = "ready" /\ ValidCondition) ~> (pc = "done")

\* The scan of a list-based condition ended on a hand without jokers whose
\* streaks are all shorter than the required number.
C8_Witness ==
  /\ pc = "done"
  /\ condition.kind = "AnyList"
  /\ condition.required_number = 7
  /\ JokerPositions = {}
  /\ current_number > LastNumber
  /\ result = <<>>

====
